---- MODULE Spec2Model ----
(***************************************************************************)
(* SHFS administration core (shfs_admin.c): mount, the object actions      *)
(* add / remove / export / set-default / clear-default / list / info, and  *)
(* unmount, over a striped volume whose hash table is cached in memory.    *)
(*                                                                         *)
(* The bucket table (shfs_btable.h), the allocator (shfs_alloc.h), the     *)
(* chunk I/O layer and the on-disk macros (shfs_defs.h) are not part of    *)
(* the sources at hand; they are modelled from the specification.          *)
(***************************************************************************)
EXTENDS Integers, Sequences, FiniteSets, TLC

(***************************************************************************)
(* Bounds of the model                                                     *)
(***************************************************************************)
\* bytes of one chunk (shfs_vol.chunksize)
ChunkSize == 2
\* bytes of one on-disk hash-table entry (sizeof(struct shfs_hentry))
HentrySize == 1
\* hdr_config->htable_bucket_count
NbBuckets == 2
\* hdr_config->htable_entries_per_bucket
EntriesPerBucket == 2
\* number of payload chunks of the volume
NbDataChunks == 4
\* longest source file, in bytes
MaxFileLen == 3
\* tokens the driver executes in a behaviour of one process run
MaxTokens == 3
\* tokens the driver executes, over all runs, in a behaviour of several runs
RemountTokens == 2
\* process runs (mounts) of one behaviour
MaxRuns == 2
\* bytes of a digest (shfs_vol.hlen)
Hlen == 2
\* longest member table of a common header (member_count)
MaxMembers == 2
\* most devices supplied to mount
MaxDevices == 3
\* distinct member UUIDs
NbUuids == 3

NULL == -1

(***************************************************************************)
(* Arithmetic helpers                                                      *)
(***************************************************************************)
DIV_ROUND_UP(num, div) == (num + div - 1) \div div

min(a, b) == IF a < b THEN a ELSE b

(***************************************************************************)
(* Volume geometry (load_vol_hconf)                                        *)
(***************************************************************************)
htable_nb_entries == NbBuckets * EntriesPerBucket

htable_nb_entries_per_chunk == ChunkSize \div HentrySize

htable_len == DIV_ROUND_UP(htable_nb_entries, htable_nb_entries_per_chunk)

Slots == 0 .. (htable_nb_entries - 1)

HtChunks == 0 .. (htable_len - 1)

SHFS_HTABLE_CHUNK_NO(i) == i \div htable_nb_entries_per_chunk

SHFS_HTABLE_ENTRY_OFFSET(i) == (i % htable_nb_entries_per_chunk) * HentrySize

\* Two volume layouts as mkfs may have produced them: the hash table at the end
\* of the volume without a backup, or at chunk 2 followed by its backup.
Layouts ==
    { [htable_ref |-> 2 + NbDataChunks, htable_bak_ref |-> 0,
       volsize |-> 2 + NbDataChunks + htable_len - 1],
      [htable_ref |-> 2, htable_bak_ref |-> 2 + htable_len,
       volsize |-> 2 + 2 * htable_len + NbDataChunks - 1] }

Allocators == {"FIRST", "BEST"}

(***************************************************************************)
(* Source files and the digest primitive                                   *)
(***************************************************************************)
Bytes == {1, 2}

\* The byte strings the source files hold: the two alternating patterns
\* 1,2,1,2,... and 2,1,2,1,... cut at every length up to MaxFileLen.
FileOf(k, n) == [i \in 1 .. n |-> ((i + k) % 2) + 1]

Files == { FileOf(k, n) : k \in {0, 1}, n \in 0 .. MaxFileLen }

SubSeqOrEmpty(s, from, to) == IF from > to THEN << >> ELSE SubSeq(s, from, to)

\* mhash(SHA-256) as a collision-free digest of the bytes it was fed: the
\* bytes read as a base-3 numeral behind a leading 1, never the all-zero digest.
RECURSIVE Digest(_)
Digest(fed) ==
    IF fed = << >> THEN 1
    ELSE 3 * Digest(SubSeqOrEmpty(fed, 1, Len(fed) - 1)) + fed[Len(fed)]

(***************************************************************************)
(* Allocator (shfs_alloc.h): the occupied chunks of [0, volsize + 1)       *)
(***************************************************************************)
ChunkRange(start, len) == start .. (start + len - 1)

\* register(start, length): fails when the range overlaps an occupied range
alist_register_ok(a, start, len) == ChunkRange(start, len) \cap a = {}

shfs_alist_register(a, start, len) ==
    IF alist_register_ok(a, start, len) THEN a \cup ChunkRange(start, len) ELSE a

\* unregister(start, length): fails when the range is not fully occupied
alist_unregister_ok(a, start, len) == ChunkRange(start, len) \subseteq a

shfs_alist_unregister(a, start, len) ==
    IF alist_unregister_ok(a, start, len) THEN a \ ChunkRange(start, len) ELSE a

\* the free gaps of length >= len inside [2, volsize + 1)
FitsAt(a, s, len, volsize) ==
    /\ s >= 2
    /\ s + len <= volsize + 1
    /\ ChunkRange(s, len) \cap a = {}

\* the maximal free gap that starts at s ends before GapEnd
GapStarts(a, volsize) ==
    { s \in 2 .. volsize : s \notin a /\ (s = 2 \/ (s - 1) \in a) }

GapLen(a, s, volsize) ==
    CHOOSE n \in 1 .. (volsize + 1 - s) :
        /\ ChunkRange(s, n) \cap a = {}
        /\ (s + n = volsize + 1 \/ (s + n) \in a)

Lowest(S) == CHOOSE x \in S : \A y \in S : x <= y

shfs_alist_find_free(a, len, volsize, allocator) ==
    IF len = 0 THEN 0
    ELSE IF allocator = "BEST"
    THEN LET fit == { s \in GapStarts(a, volsize) : GapLen(a, s, volsize) >= len }
             least == { s \in fit : \A t \in fit :
                           GapLen(a, s, volsize) <= GapLen(a, t, volsize) }
         IN  IF fit = {} THEN 0 ELSE Lowest(least)
    ELSE LET fit == { s \in 2 .. volsize : FitsAt(a, s, len, volsize) }
         IN  IF fit = {} THEN 0 ELSE Lowest(fit)

(***************************************************************************)
(* Bucket table (shfs_btable.h): one bentry per hash-table slot            *)
(***************************************************************************)
EmptyBentry == [hash |-> 0, hentry_htchunk |-> 0, hentry_htoffset |-> 0]

shfs_alloc_btable == [i \in Slots |-> EmptyBentry]

\* the bucket of a digest: its leading bits modulo the number of buckets
shfs_btable_bucket(h) == h % NbBuckets

BucketSlots(b) == { i \in Slots : i \div EntriesPerBucket = b }

\* feed(slot, digest): installs the digest of on-disk slot i at slot i
shfs_btable_feed(b, i, h) == [b EXCEPT ![i].hash = h]

\* lookup(digest): linear search of the digest's bucket
shfs_btable_lookup(b, h) ==
    LET hit == { i \in BucketSlots(shfs_btable_bucket(h)) : b[i].hash = h }
    IN  IF h = 0 \/ hit = {} THEN NULL ELSE Lowest(hit)

\* add_entry(digest): the first empty slot of the digest's bucket
shfs_btable_addentry_slot(b, h) ==
    LET free == { i \in BucketSlots(shfs_btable_bucket(h)) : b[i].hash = 0 }
    IN  IF free = {} THEN NULL ELSE Lowest(free)

shfs_btable_addentry(b, h) ==
    LET i == shfs_btable_addentry_slot(b, h)
    IN  IF i = NULL THEN b ELSE [b EXCEPT ![i].hash = h]

\* rm_entry(digest): clears the slot that holds the digest
shfs_btable_rmentry(b, h) ==
    LET i == shfs_btable_lookup(b, h)
    IN  IF i = NULL THEN b ELSE [b EXCEPT ![i].hash = 0]

\* foreach_htable_el: the non-empty slots, bucket by bucket, slot by slot
RECURSIVE SlotsFrom(_, _)
SlotsFrom(b, i) ==
    IF i >= htable_nb_entries THEN << >>
    ELSE IF b[i].hash # 0 THEN << i >> \o SlotsFrom(b, i + 1)
    ELSE SlotsFrom(b, i + 1)

foreach_htable_el(b) == SlotsFrom(b, 0)

(***************************************************************************)
(* State                                                                   *)
(***************************************************************************)
VARIABLES
    vol,        \* configuration of the volume read from chunk 0 and chunk 1
    pri,        \* on disk: the entries of the primary hash-table region
    bak,        \* on disk: the entries of the backup hash-table region
    data,       \* on disk: the bytes of every chunk as payload
    phase,      \* "down" (no process, or exited) or "up" (mounted)
    cache,      \* shfs_vol.htable_chunk_cache: the entries in memory
    cstate,     \* shfs_vol.htable_chunk_cache_state: MODIFIED per chunk
    bt,         \* shfs_vol.bt
    al,         \* shfs_vol.al
    def_bentry, \* shfs_vol.def_bentry: a slot or NULL
    cancel,     \* the flag the signal handler raises
    ntok,       \* tokens executed so far
    runs,       \* processes started so far
    last,       \* the action executed last and what it returned
    snap,       \* bucket table and allocator as they were when unmount began
    failed,     \* main: tokens of this run that returned an error
    exitcode,   \* status the process exited with, NoExit while it runs
    assembly,   \* the supplied devices, the member table and shfs_vol.s.member
    only_reads, \* main: every token of this run was cat-obj, ls or info
    copied      \* per slot, the chunks the add that made the entry has written

vars == << vol, pri, bak, data, phase, cache, cstate, bt, al, def_bentry,
           cancel, ntok, runs, last, snap, failed, exitcode, assembly,
           only_reads, copied >>

disk == << vol, pri, bak, data >>

SHFS_EFLAG_DEFAULT == "DEFAULT"

SHFS_EFLAG_HIDDEN == "HIDDEN"

EmptyHentry == [hash |-> 0, chunk |-> 0, offset |-> 0, len |-> 0, flags |-> {}]

ZeroChunk == [i \in 1 .. ChunkSize |-> 0]

SHFS_HENTRY_ISDEFAULT(hentry) == SHFS_EFLAG_DEFAULT \in hentry.flags

\* chunks of the container of an entry
ContainerLen(hentry) == DIV_ROUND_UP(hentry.offset + hentry.len, ChunkSize)

\* bookkeeping of the action executed last
Act(op, ret, why, file, hash, slot, chunk, out) ==
    [op |-> op, ret |-> ret, why |-> why, file |-> file, hash |-> hash,
     slot |-> slot, chunk |-> chunk, out |-> out]

NoAction == Act("none", 0, "none", << >>, 0, NULL, 0, << >>)

NoSnap == [ok |-> FALSE, hashes |-> [i \in Slots |-> 0], al |-> {}]

EXIT_SUCCESS == 0

EXIT_FAILURE == 1

\* exit(-2), the status of a cancelled run
EXIT_CANCEL == -2

NoExit == "running"

\* A freshly made volume, no process running.
InitVolume ==
    /\ vol \in { [htable_ref |-> l.htable_ref, htable_bak_ref |-> l.htable_bak_ref,
                  volsize |-> l.volsize, allocator |-> a] :
                 l \in Layouts, a \in Allocators }
    /\ pri = [i \in Slots |-> EmptyHentry]
    /\ bak = [i \in Slots |-> EmptyHentry]
    /\ data = [c \in 0 .. vol.volsize |-> ZeroChunk]
    /\ phase = "down"
    /\ cache = [i \in Slots |-> EmptyHentry]
    /\ cstate = [c \in HtChunks |-> FALSE]
    /\ bt = shfs_alloc_btable
    /\ al = {}
    /\ def_bentry = NULL
    /\ cancel = FALSE
    /\ ntok = 0
    /\ runs = 0
    /\ last = NoAction
    /\ snap = NoSnap
    /\ failed = 0
    /\ exitcode = NoExit

(***************************************************************************)
(* Member assembly (load_vol_cconf)                                        *)
(***************************************************************************)
Uuids == 1 .. NbUuids

\* sequences over S of the lengths 1 .. n
SeqsUpTo(S, n) == UNION { [1 .. k -> S] : k \in 1 .. n }

\* mutant of MemberAlreadyAdded: a member is never taken as added before
MemberAlreadyAdded_Never(member, uuid) == FALSE

\* was this member already added (malformed label)?
MemberAlreadyAdded(member, uuid) ==
    \E j \in DOMAIN member : member[j].uuid = uuid

\* the loop over the detected devices for member i of the header
RECURSIVE MatchDevices(_, _, _, _, _)
MatchDevices(hdr, devs, i, m, st) ==
    IF st.fatal \/ m > Len(devs) THEN st
    ELSE IF hdr[i] = devs[m]
    THEN IF MemberAlreadyAdded(st.member, hdr[i])
         THEN [st EXCEPT !.fatal = TRUE]
         ELSE MatchDevices(hdr, devs, i, m + 1,
                           [st EXCEPT !.member =
                               Append(@, [uuid |-> devs[m], d |-> m])])
    ELSE MatchDevices(hdr, devs, i, m + 1, st)

\* the loop over the member table of the header
RECURSIVE FindMembers(_, _, _, _)
FindMembers(hdr, devs, i, st) ==
    IF st.fatal \/ i > Len(hdr) THEN st
    ELSE FindMembers(hdr, devs, i + 1, MatchDevices(hdr, devs, i, 1, st))

\* load_vol_cconf: devs[m] is the member UUID of the m-th supplied device, hdr
\* the member table of the common header of the first one
load_vol_cconf(hdr, devs) ==
    LET st == FindMembers(hdr, devs, 1, [fatal |-> FALSE, member |-> << >>])
    IN  [hdr |-> hdr, devs |-> devs, done |-> TRUE,
         fatal |-> \/ st.fatal
                   \/ Len(st.member) # Len(devs)
                   \/ Len(st.member) # Len(hdr),
         member |-> st.member]

\* nothing is known to have been copied: mem for the entries of the cache, dsk
\* for the entries of the primary region
NoCopied == [mem |-> [i \in Slots |-> {}], dsk |-> [i \in Slots |-> {}]]

NoAssembly ==
    [hdr |-> << >>, devs |-> << >>, done |-> FALSE, fatal |-> FALSE,
     member |-> << >>]

Init == InitVolume /\ assembly = NoAssembly /\ only_reads = TRUE /\ copied = NoCopied

\* devices handed to mount, the common header of the first one read
InitMembers ==
    /\ InitVolume
    /\ vol.htable_bak_ref = 0
    /\ vol.allocator = "FIRST"
    /\ only_reads = TRUE
    /\ copied = NoCopied
    /\ assembly \in { [NoAssembly EXCEPT !.hdr = h, !.devs = d] :
                        h \in SeqsUpTo(Uuids, MaxMembers),
                        d \in SeqsUpTo(Uuids, MaxDevices) }

\* mount_shfs up to the end of the member assembly
AssembleMembers ==
    /\ phase = "down"
    /\ ~assembly.done
    /\ assembly.devs # << >>
    /\ assembly' = load_vol_cconf(assembly.hdr, assembly.devs)
    /\ UNCHANGED << vol, pri, bak, data, phase, cache, cstate, bt, al,
                    def_bentry, cancel, ntok, runs, last, snap, failed, exitcode,
                    only_reads, copied >>

SpecMembers == InitMembers /\ [][AssembleMembers]_vars

(***************************************************************************)
(* Mount                                                                   *)
(***************************************************************************)
\* load_vol_htable: every slot is fed to the bucket table in order
RECURSIVE FeedFrom(_, _, _)
FeedFrom(b, tab, i) ==
    IF i >= htable_nb_entries THEN b
    ELSE FeedFrom([shfs_btable_feed(b, i, tab[i].hash) EXCEPT
                      ![i].hentry_htchunk = SHFS_HTABLE_CHUNK_NO(i),
                      ![i].hentry_htoffset = SHFS_HTABLE_ENTRY_OFFSET(i)],
                  tab, i + 1)

load_vol_htable_bt(tab) == FeedFrom(shfs_alloc_btable, tab, 0)

\* load_vol_htable: def_bentry is the last slot whose DEFAULT flag is set
load_vol_htable_def(tab) ==
    LET flagged == { i \in Slots : SHFS_HENTRY_ISDEFAULT(tab[i]) }
    IN  IF flagged = {} THEN NULL
        ELSE CHOOSE i \in flagged : \A j \in flagged : j <= i

\* load_vol_alist: the containers of the entries, results of register ignored
RECURSIVE RegisterContainers(_, _, _)
RegisterContainers(a, tab, els) ==
    IF els = << >> THEN a
    ELSE RegisterContainers(
             shfs_alist_register(a, tab[Head(els)].chunk, ContainerLen(tab[Head(els)])),
             tab, Tail(els))

\* mutant of load_vol_alist: the hash-table regions are not registered
load_vol_alist_NoTable(v, b, tab) ==
    RegisterContainers(shfs_alist_register({}, 0, 2), tab, foreach_htable_el(b))

load_vol_alist(v, b, tab) ==
    LET a0 == shfs_alist_register({}, 0, 2)
        a1 == shfs_alist_register(a0, v.htable_ref, htable_len)
        a2 == IF v.htable_bak_ref # 0
              THEN shfs_alist_register(a1, v.htable_bak_ref, htable_len)
              ELSE a1
    IN  RegisterContainers(a2, tab, foreach_htable_el(b))

\* mutant of NeedRead: a chunk is read for every slot
NeedRead_Always(cur_chk, cur_htchk, chk_buf) == TRUE

\* load_vol_htable: the chunk of slot i is read when it is not the current
\* chunk or when no chunk was read yet
NeedRead(cur_chk, cur_htchk, chk_buf) == cur_chk # cur_htchk \/ chk_buf = NULL

\* load_vol_htable: the hash-table chunks read by sync_read_chunk, in order;
\* chk_buf is NULL or the chunk whose buffer it points to
RECURSIVE ReadsFrom(_, _, _, _)
ReadsFrom(i, cur_chk, chk_buf, reads) ==
    IF i >= htable_nb_entries THEN reads
    ELSE LET cur_htchk == SHFS_HTABLE_CHUNK_NO(i)
         IN  IF NeedRead(cur_chk, cur_htchk, chk_buf)
             THEN ReadsFrom(i + 1, cur_htchk, cur_htchk, Append(reads, cur_htchk))
             ELSE ReadsFrom(i + 1, cur_chk, chk_buf, reads)

load_vol_htable_reads == ReadsFrom(0, 0, NULL, << >>)

mount_shfs ==
    /\ phase = "down"
    /\ runs < MaxRuns
    /\ (runs > 0 => ntok <= RemountTokens)
    /\ phase' = "up"
    /\ runs' = runs + 1
    /\ cancel' = FALSE
    /\ cache' = pri
    /\ cstate' = [c \in HtChunks |-> FALSE]
    /\ bt' = load_vol_htable_bt(pri)
    /\ def_bentry' = load_vol_htable_def(pri)
    /\ al' = load_vol_alist(vol, load_vol_htable_bt(pri), pri)
    /\ last' = Act("mount", 0, "none", << >>, 0, NULL, 0, load_vol_htable_reads)
    /\ UNCHANGED << disk, ntok, snap >>

\* main: mount of the one member of the volume, then the failure count starts
\* at zero
Mount ==
    /\ mount_shfs
    /\ failed' = 0
    /\ exitcode' = NoExit
    /\ assembly' = load_vol_cconf(<< 1 >>, << 1 >>)
    /\ only_reads' = TRUE
    /\ copied' = [copied EXCEPT !.mem = copied.dsk]

(***************************************************************************)
(* Driver bookkeeping                                                      *)
(***************************************************************************)
\* the actions that only read the volume
ReadActions == {"cat", "ls", "info"}

\* bookkeeping of the token loop: whether a token other than cat-obj, ls and
\* info was executed in this run
main_history == only_reads' = (only_reads /\ last'.op \in ReadActions)

\* mutant of main_count: a failed token is not counted
main_count_NotCounted == main_history /\ UNCHANGED << failed, exitcode, assembly >>

\* main: a token that returned an error is counted, the loop goes on
main_count ==
    /\ failed' = (IF last'.ret < 0 THEN failed + 1 ELSE failed)
    /\ main_history
    /\ UNCHANGED << exitcode, assembly >>

\* mutant of main_exit: the cancel flag is not looked at after unmount
main_exit_IgnoresCancel(written, c, f) ==
    IF ~written THEN EXIT_FAILURE
    ELSE IF f > 0 THEN EXIT_FAILURE
    ELSE EXIT_SUCCESS

\* main: the status of the process after unmount; a failed write-back has
\* ended the process inside umount_shfs
main_exit(written, c, f) ==
    IF ~written THEN EXIT_FAILURE
    ELSE IF c THEN EXIT_CANCEL
    ELSE IF f > 0 THEN EXIT_FAILURE
    ELSE EXIT_SUCCESS

\* main: a token is executed while the volume is mounted and cancel is clear
TokenEnabled ==
    /\ phase = "up"
    /\ ~cancel
    /\ ntok < (IF runs > 1 THEN RemountTokens ELSE MaxTokens)

\* sigint_handler, delivered between two tokens or before unmount
sigint_handler ==
    /\ phase = "up"
    /\ ~cancel
    /\ cancel' = TRUE
    /\ UNCHANGED << disk, phase, cache, cstate, bt, al, def_bentry, ntok, runs,
                    last, snap, failed, exitcode, assembly, only_reads, copied >>

(***************************************************************************)
(* add-obj                                                                 *)
(***************************************************************************)
\* What may interrupt one run of actn_addfile: nothing, a failing system call,
\* or the signal arriving before the cancel check of loop iteration `at`.
AddEvents(csize) ==
    { [kind |-> k, at |-> 0] : k \in {"none", "open", "prep", "lseek2"} }
    \cup { [kind |-> k, at |-> c] :
             k \in {"read1", "cancel1", "read2", "write", "cancel2"},
             c \in 0 .. (csize - 1) }

\* digest loop: bytes asked of read() in iteration c
HashRlen(c, csize, fsize) ==
    IF c = csize - 1 THEN fsize % ChunkSize ELSE ChunkSize

\* digest loop: the bytes handed to mhash() in iterations c .. csize - 1, the
\* file position being pos
RECURSIVE HashFed(_, _, _, _)
HashFed(file, c, csize, pos) ==
    IF c >= csize THEN << >>
    ELSE LET rlen == HashRlen(c, csize, Len(file))
         IN  SubSeqOrEmpty(file, pos + 1, pos + rlen)
                 \o HashFed(file, c + 1, csize, pos + rlen)

AddFileHash(file) ==
    Digest(HashFed(file, 0, DIV_ROUND_UP(Len(file), ChunkSize), 0))

\* copy loop: bytes asked of read() in iteration c
CopyRlen(c, fsize) ==
    LET left == fsize - c * ChunkSize
    IN  IF left > ChunkSize THEN ChunkSize ELSE left

\* copy loop: the buffer written to chunk cchk + c
CopyBlock(file, c) ==
    LET rlen == CopyRlen(c, Len(file))
    IN  [i \in 1 .. ChunkSize |->
            IF i <= rlen THEN file[c * ChunkSize + i] ELSE 0]

\* copy loop: sync_write_chunk of the iterations 0 .. n - 1
CopyWrite(d, file, cchk, n) ==
    [c \in DOMAIN d |->
        IF c >= cchk /\ c < cchk + n THEN CopyBlock(file, c - cchk) ELSE d[c]]

\* mutant of AddNoSpace: whatever find_free returned is taken as a range
AddNoSpace_Never(cchk, volsize) == FALSE

\* the allocator found no range for the container
AddNoSpace(cchk, volsize) == cchk = 0 \/ cchk >= volsize

\* mutant of AddDuplicate: the lookup before the insert is left out
AddDuplicate_NoLookup(b, h) == FALSE

\* lookup before insert: an entry with the same hash already exists
AddDuplicate(b, h) == shfs_btable_lookup(b, h) # NULL

\* the hash-table entry add forms
AddHentry(fhash, cchk, fsize) ==
    [hash |-> fhash, chunk |-> cchk, offset |-> 0, len |-> fsize, flags |-> {}]

\* mutant of AddReleaseContainer: the reservation is kept on the error paths
AddReleaseContainer_Leak(a, cchk, csize) == a

\* err_release_container: the reservation is discarded on every error path
AddReleaseContainer(a, cchk, csize) == shfs_alist_unregister(a, cchk, csize)

\* iterations of the copy loop whose chunk was written before the event
CopyWritten(e, csize) ==
    CASE e.kind = "lseek2" -> 0
      [] e.kind \in {"read2", "write"} -> e.at
      [] e.kind = "cancel2" -> e.at + 1
      [] OTHER -> csize

\* bookkeeping: the file, when the token before was the remove of this file
AddAfterRm(file) ==
    IF last.op = "rm" /\ last.ret = 0 /\ last.file = file THEN file ELSE << >>

actn_addfile(file, e) ==
    LET fsize == Len(file)
        csize == DIV_ROUND_UP(fsize, ChunkSize)
        cchk  == shfs_alist_find_free(al, csize, vol.volsize, vol.allocator)
        a1    == shfs_alist_register(al, cchk, csize)
        fhash == AddFileHash(file)
        slot  == shfs_btable_addentry_slot(bt, fhash)
        same  == UNCHANGED << data, cache, cstate, bt, cancel >>
    IN
    /\ TokenEnabled
    /\ e \in AddEvents(csize)
    /\ ntok' = ntok + 1
    /\ UNCHANGED << vol, pri, bak, phase, def_bentry, runs, snap >>
    /\ IF e.kind = "open"
       THEN /\ last' = Act("add", -1, "open", << >>, 0, NULL, 0, << >>)
            /\ al' = al
            /\ same
       ELSE IF AddNoSpace(cchk, vol.volsize)
       THEN /\ e.kind = "none"
            /\ last' = Act("add", -1, "nospace", file, 0, NULL, cchk, << >>)
            /\ al' = al
            /\ same
       ELSE IF e.kind \in {"prep", "read1"}
       THEN /\ last' = Act("add", -1, e.kind, << >>, 0, NULL, cchk, << >>)
            /\ al' = AddReleaseContainer(a1, cchk, csize)
            /\ same
       ELSE IF e.kind = "cancel1"
       THEN /\ last' = Act("add", -2, e.kind, << >>, 0, NULL, cchk, << >>)
            /\ al' = AddReleaseContainer(a1, cchk, csize)
            /\ cancel' = TRUE
            /\ UNCHANGED << data, cache, cstate, bt >>
       ELSE IF AddDuplicate(bt, fhash)
       THEN /\ e.kind = "none"
            /\ last' = Act("add", -1, "duplicate", AddAfterRm(file), fhash, NULL, cchk,
                        << >>)
            /\ al' = AddReleaseContainer(a1, cchk, csize)
            /\ same
       ELSE IF slot = NULL
       THEN /\ e.kind = "none"
            /\ last' = Act("add", -1, "bucketfull", AddAfterRm(file), fhash, NULL, cchk,
                        << >>)
            /\ al' = AddReleaseContainer(a1, cchk, csize)
            /\ same
       ELSE /\ bt' = shfs_btable_addentry(bt, fhash)
            /\ cache' = [cache EXCEPT ![slot] = AddHentry(fhash, cchk, fsize)]
            /\ cstate' = [cstate EXCEPT ![bt[slot].hentry_htchunk] = TRUE]
            /\ data' = CopyWrite(data, file, cchk, CopyWritten(e, csize))
            /\ cancel' = (e.kind = "cancel2")
            /\ al' = IF e.kind = "none" THEN a1
                     ELSE AddReleaseContainer(a1, cchk, csize)
            /\ last' = Act("add",
                           IF e.kind = "none" THEN 0
                           ELSE IF e.kind = "cancel2" THEN -2 ELSE -1,
                           e.kind, file, fhash, slot, cchk,
                           HashFed(file, 0, csize, 0))

\* bookkeeping: the chunks the copy loop of this add wrote before it ended, for
\* the entry it inserted
add_copied(e, csize) ==
    copied' = IF last'.slot = NULL THEN copied
              ELSE [copied EXCEPT
                       !.mem[last'.slot] = ChunkRange(last'.chunk, CopyWritten(e, csize))]

\* bookkeeping: the other actions copy nothing
keep_copied == UNCHANGED copied

AddObj == \E file \in Files : \E e \in AddEvents(DIV_ROUND_UP(Len(file), ChunkSize)) :
              /\ actn_addfile(file, e)
              /\ main_count
              /\ add_copied(e, DIV_ROUND_UP(Len(file), ChunkSize))

(***************************************************************************)
(* Digest strings of the tokens                                            *)
(***************************************************************************)
\* byte i (1 .. Hlen) of a digest, the first byte leading
HashByte(h, i) == (h \div (256 ^ (Hlen - i))) % 256

\* hash_unparse: two hexadecimal digits per byte ("%02x"); a character is
\* modelled by its digit value, 16 and above being no hexadecimal character
hash_unparse(h) ==
    [j \in 1 .. (2 * Hlen) |->
        IF j % 2 = 1 THEN HashByte(h, (j + 1) \div 2) \div 16
        ELSE HashByte(h, j \div 2) % 16]

hash_parse_ok(str) ==
    /\ Len(str) = 2 * Hlen
    /\ \A j \in 1 .. Len(str) : str[j] \in 0 .. 15

RECURSIVE HexValue(_)
HexValue(str) ==
    IF str = << >> THEN 0
    ELSE 16 * HexValue(SubSeqOrEmpty(str, 1, Len(str) - 1)) + str[Len(str)]

\* hash_parse: the digest of a well-formed string, NULL otherwise
hash_parse(str) == IF hash_parse_ok(str) THEN HexValue(str) ELSE NULL

\* The digest strings a token may carry: those of the digests add can compute,
\* one too short and one with a character that is no hexadecimal digit.
HashStrings ==
    { hash_unparse(AddFileHash(f)) : f \in Files }
    \cup { << 0 >>, [j \in 1 .. (2 * Hlen) |-> 16] }

\* the slot of the on-disk entry a bentry points to
HentrySlot(bentry) ==
    bentry.hentry_htchunk * htable_nb_entries_per_chunk
        + (bentry.hentry_htoffset \div HentrySize)

(***************************************************************************)
(* rm-obj                                                                  *)
(***************************************************************************)
\* mutant of RmReleaseContainer: the container stays registered
RmReleaseContainer_Kept(a, hentry) == a

\* mutant of RmReleaseContainer: a failing release frees the occupied part
RmReleaseContainer_Partial(a, hentry) ==
    a \ ChunkRange(hentry.chunk, ContainerLen(hentry))

\* release container: the range of the entry is unregistered; a failing
\* unregister leaves the allocator as it is
RmReleaseContainer(a, hentry) ==
    shfs_alist_unregister(a, hentry.chunk, ContainerLen(hentry))

\* mutant of RmMarkModified: the chunk of the cleared entry is not marked
RmMarkModified_Unmarked(st, bentry) == st

\* the chunk that holds the cleared entry is marked MODIFIED
RmMarkModified(st, bentry) == [st EXCEPT ![bentry.hentry_htchunk] = TRUE]

\* clear htable entry: hash_clear of the entry, the other fields stay
RmClearHentry(c, slot) == [c EXCEPT ![slot].hash = 0]

\* bookkeeping: the file of the add executed just before, when this token
\* names the digest that add computed
FileOfLastAdd(h) ==
    IF last.op = "add" /\ last.ret = 0 /\ last.hash = h THEN last.file ELSE << >>

actn_rmfile(str) ==
    LET h      == hash_parse(str)
        b      == shfs_btable_lookup(bt, h)
        slot   == HentrySlot(bt[b])
        hentry == cache[slot]
        same   == UNCHANGED << al, bt, cache, cstate >>
    IN
    /\ TokenEnabled
    /\ ntok' = ntok + 1
    /\ UNCHANGED << disk, phase, def_bentry, cancel, runs, snap >>
    /\ IF h = NULL
       THEN /\ last' = Act("rm", -1, "parse", << >>, 0, NULL, 0, << >>)
            /\ same
       ELSE IF b = NULL
       THEN /\ last' = Act("rm", -1, "notfound", << >>, 0, NULL, 0, << >>)
            /\ same
       ELSE IF ~alist_unregister_ok(al, hentry.chunk, ContainerLen(hentry))
       THEN /\ last' = Act("rm", -1, "release", << >>, h, b, hentry.chunk, << >>)
            /\ al' = RmReleaseContainer(al, hentry)
            /\ UNCHANGED << bt, cache, cstate >>
       ELSE /\ al' = RmReleaseContainer(al, hentry)
            /\ bt' = shfs_btable_rmentry(bt, h)
            /\ cache' = RmClearHentry(cache, slot)
            /\ cstate' = RmMarkModified(cstate, bt[b])
            /\ last' = Act("rm", 0, "none", FileOfLastAdd(h), h, b, hentry.chunk,
                           << >>)

RmObj == \E str \in HashStrings : actn_rmfile(str) /\ main_count /\ keep_copied

(***************************************************************************)
(* cat-obj                                                                 *)
(***************************************************************************)
\* mutant of CatRlen: the rest of the chunk is emitted, whatever is left
CatRlen_WholeChunk(off, left) == ChunkSize - off

\* bytes written to stdout in one iteration of the export loop
CatRlen(off, left) == min(ChunkSize - off, left)

\* the export loop from chunk c on, at most n iterations
RECURSIVE CatLoop(_, _, _, _, _)
CatLoop(d, c, off, left, n) ==
    IF left = 0 \/ n = 0 \/ c \notin DOMAIN d THEN << >>
    ELSE LET rlen == CatRlen(off, left)
         IN  SubSeqOrEmpty(d[c], off + 1, off + rlen)
                 \o CatLoop(d, c + 1, 0, left - rlen, n - 1)

\* what export of an entry emits when no read and no write fails
CatOutput(d, hentry) ==
    CatLoop(d, hentry.chunk, hentry.offset, hentry.len, ContainerLen(hentry))

CatEvents(hentry) ==
    { [kind |-> k, at |-> 0] : k \in {"none", "malloc"} }
    \cup { [kind |-> "io", at |-> c] : c \in 0 .. (ContainerLen(hentry) - 1) }

actn_catfile(str, e) ==
    LET h      == hash_parse(str)
        b      == shfs_btable_lookup(bt, h)
        hentry == cache[HentrySlot(bt[b])]
    IN
    /\ TokenEnabled
    /\ ntok' = ntok + 1
    /\ UNCHANGED << disk, phase, cache, cstate, bt, al, def_bentry, cancel,
                    runs, snap >>
    /\ IF e.kind = "malloc"
       THEN last' = Act("cat", -1, "malloc", << >>, 0, NULL, 0, << >>)
       ELSE IF h = NULL
       THEN /\ e.kind = "none"
            /\ last' = Act("cat", -1, "parse", << >>, 0, NULL, 0, << >>)
       ELSE IF b = NULL
       THEN /\ e.kind = "none"
            /\ last' = Act("cat", -1, "notfound", << >>, 0, NULL, 0, << >>)
       ELSE /\ e \in CatEvents(hentry)
            /\ last' = IF e.kind = "io"
                       THEN Act("cat", -1, "io", << >>, h, b, hentry.chunk,
                                CatLoop(data, hentry.chunk, hentry.offset,
                                        hentry.len, e.at))
                       ELSE Act("cat", 0, "none", FileOfLastAdd(h), h, b,
                                hentry.chunk, CatOutput(data, hentry))

CatObj == \E str \in HashStrings :
              \E e \in { [kind |-> k, at |-> c] :
                           k \in {"none", "malloc", "io"}, c \in 0 .. MaxFileLen } :
                  actn_catfile(str, e) /\ main_count /\ keep_copied

(***************************************************************************)
(* set-default, clear-default                                              *)
(***************************************************************************)
\* mutant of bentry_setflags: the flags of the entry stay as they are
bentry_setflags_Nothing(c, bentry, flags) == c

bentry_setflags(c, bentry, flags) ==
    [c EXCEPT ![HentrySlot(bentry)].flags = @ \cup flags]

bentry_clearflags(c, bentry, flags) ==
    [c EXCEPT ![HentrySlot(bentry)].flags = @ \ flags]

\* the chunk cache after actn_cleardefault
ClearDefaultCache(c) ==
    IF def_bentry = NULL THEN c
    ELSE bentry_clearflags(c, bt[def_bentry], {SHFS_EFLAG_DEFAULT})

\* the MODIFIED bits after actn_cleardefault
ClearDefaultState(st) ==
    IF def_bentry = NULL THEN st
    ELSE [st EXCEPT ![bt[def_bentry].hentry_htchunk] = TRUE]

actn_cleardefault ==
    /\ TokenEnabled
    /\ ntok' = ntok + 1
    /\ cache' = ClearDefaultCache(cache)
    /\ cstate' = ClearDefaultState(cstate)
    /\ def_bentry' = NULL
    /\ last' = Act("cleardefault", 0, "none", << >>, 0, def_bentry, 0, << >>)
    /\ UNCHANGED << disk, phase, bt, al, cancel, runs, snap >>

actn_setdefault(str) ==
    LET h == hash_parse(str)
        b == shfs_btable_lookup(bt, h)
    IN
    /\ TokenEnabled
    /\ ntok' = ntok + 1
    /\ UNCHANGED << disk, phase, bt, al, cancel, runs, snap >>
    /\ IF h = NULL
       THEN /\ last' = Act("setdefault", -1, "parse", << >>, 0, NULL, 0, << >>)
            /\ UNCHANGED << cache, cstate, def_bentry >>
       ELSE IF b = NULL
       THEN /\ last' = Act("setdefault", -1, "notfound", << >>, 0, NULL, 0, << >>)
            /\ UNCHANGED << cache, cstate, def_bentry >>
       ELSE /\ cache' = bentry_setflags(ClearDefaultCache(cache), bt[b],
                                        {SHFS_EFLAG_DEFAULT})
            /\ cstate' = [ClearDefaultState(cstate) EXCEPT
                             ![bt[b].hentry_htchunk] = TRUE]
            /\ def_bentry' = b
            /\ last' = Act("setdefault", 0, "none", << >>, h, b, 0, << def_bentry >>)

SetDefault == \E str \in HashStrings : actn_setdefault(str) /\ main_count /\ keep_copied

ClearDefault == actn_cleardefault /\ main_count /\ keep_copied

(***************************************************************************)
(* ls, info                                                                *)
(***************************************************************************)
\* one row of the listing: digest string, start chunk, chunks, flag characters
LsRow(b, c, i) ==
    LET hentry == c[HentrySlot(b[i])]
    IN  [hash |-> hash_unparse(b[i].hash),
         chunk |-> hentry.chunk,
         size |-> DIV_ROUND_UP(hentry.len + hentry.offset, ChunkSize),
         flags |-> << IF SHFS_EFLAG_DEFAULT \in hentry.flags THEN "D" ELSE "-",
                      "-", "-",
                      IF SHFS_EFLAG_HIDDEN \in hentry.flags THEN "H" ELSE "-" >>]

LsRows(b, c) ==
    LET els == foreach_htable_el(b)
    IN  [k \in 1 .. Len(els) |-> LsRow(b, c, els[k])]

actn_ls ==
    /\ TokenEnabled
    /\ ntok' = ntok + 1
    /\ last' = Act("ls", 0, "none", << >>, 0, NULL, 0, LsRows(bt, cache))
    /\ UNCHANGED << disk, phase, cache, cstate, bt, al, def_bentry, cancel,
                    runs, snap >>

\* actn_info tests hdr_config before it is assigned and reads both headers:
\* it fails when the uninitialised pointer happens to be null or a read fails.
actn_info(ret) ==
    /\ TokenEnabled
    /\ ntok' = ntok + 1
    /\ last' = Act("info", ret, "none", << >>, 0, NULL, 0, << >>)
    /\ UNCHANGED << disk, phase, cache, cstate, bt, al, def_bentry, cancel,
                    runs, snap >>

Ls == actn_ls /\ main_count /\ keep_copied

Info == \E ret \in {0, -1} : actn_info(ret) /\ main_count /\ keep_copied

(***************************************************************************)
(* Unmount                                                                 *)
(***************************************************************************)
\* mutant of WriteHtChunk: the write does not reach the region
WriteHtChunk_Dropped(region, i) == region

\* sync_write_chunk of cached hash-table chunk i to a hash-table region
WriteHtChunk(region, i) ==
    [s \in Slots |-> IF SHFS_HTABLE_CHUNK_NO(s) = i THEN cache[s] ELSE region[s]]

\* mutant of FlushBackup: the backup region is not written
FlushBackup_Skipped(region, i) == region

\* the second sync_write_chunk of an iteration, to htable_bak_ref + i
FlushBackup(region, i) == WriteHtChunk(region, i)

\* mutant of CCS_MODIFIED: the chunks that were not modified count as modified
CCS_MODIFIED_Negated(st, i) == ~st[i]

\* mutant of CCS_MODIFIED: every chunk counts as modified
CCS_MODIFIED_Always(st, i) == TRUE

\* the MODIFIED bit of hash-table chunk i
CCS_MODIFIED(st, i) == st[i]

NoFail == [i |-> NULL, region |-> "none"]

UmountFails ==
    { NoFail } \cup { [i |-> i, region |-> r] : i \in HtChunks, r \in {"pri", "bak"} }

\* the write-back loop from chunk i on: the regions, the writes in the order
\* they were issued, and whether every write succeeded
RECURSIVE Flush(_, _, _, _, _)
Flush(i, p, b, log, fail) ==
    IF i >= htable_len THEN [pri |-> p, bak |-> b, log |-> log, ok |-> TRUE]
    ELSE IF ~CCS_MODIFIED(cstate, i) THEN Flush(i + 1, p, b, log, fail)
    ELSE IF fail = [i |-> i, region |-> "pri"]
    THEN [pri |-> p, bak |-> b, log |-> log, ok |-> FALSE]
    ELSE LET p1   == WriteHtChunk(p, i)
             log1 == Append(log, << "pri", i >>)
         IN  IF vol.htable_bak_ref = 0 THEN Flush(i + 1, p1, b, log1, fail)
             ELSE IF fail = [i |-> i, region |-> "bak"]
             THEN [pri |-> p1, bak |-> b, log |-> log1, ok |-> FALSE]
             ELSE Flush(i + 1, p1, FlushBackup(b, i),
                        Append(log1, << "bak", i >>), fail)

\* the write that is to fail is one the loop issues
FailPossible(fail) ==
    \/ fail = NoFail
    \/ /\ fail # NoFail
       /\ cstate[fail.i]
       /\ (fail.region = "bak" => vol.htable_bak_ref # 0)

umount_shfs(fail) ==
    LET f == Flush(0, pri, bak, << >>, fail)
    IN
    /\ phase = "up"
    /\ FailPossible(fail)
    /\ pri' = f.pri
    /\ bak' = f.bak
    /\ phase' = "down"
    /\ snap' = [ok |-> f.ok, hashes |-> [i \in Slots |-> bt[i].hash], al |-> al]
    /\ last' = Act("umount", IF f.ok THEN 0 ELSE -1, "none", << >>, 0, NULL, 0, f.log)
    /\ cache' = [i \in Slots |-> EmptyHentry]
    /\ cstate' = [c \in HtChunks |-> FALSE]
    /\ bt' = shfs_alloc_btable
    /\ al' = {}
    /\ def_bentry' = NULL
    /\ UNCHANGED << vol, data, cancel, ntok, runs >>

\* bookkeeping: an entry whose hash-table chunk was written to the primary
\* region is on disk with what its add copied
umount_copied ==
    copied' = [copied EXCEPT
                  !.dsk = [i \in Slots |->
                              IF \E k \in DOMAIN last'.out :
                                     last'.out[k] = << "pri", SHFS_HTABLE_CHUNK_NO(i) >>
                              THEN copied.mem[i] ELSE copied.dsk[i]]]

Umount ==
    \E fail \in UmountFails :
        /\ umount_shfs(fail)
        /\ exitcode' = main_exit(last'.ret = 0, cancel, failed)
        /\ umount_copied
        /\ UNCHANGED << failed, assembly, only_reads >>

(***************************************************************************)
(* A volume with a stored object                                           *)
(***************************************************************************)
\* the lowest payload chunk of a volume
FirstDataChunk(v) ==
    shfs_alist_find_free(load_vol_alist(v, shfs_alloc_btable,
                                        [i \in Slots |-> EmptyHentry]),
                         1, v.volsize, v.allocator)

\* the hash table after add of the one-byte file << 1 >> and set-default of its
\* digest
StoredTable(v) ==
    [i \in Slots |->
        IF i = shfs_btable_addentry_slot(shfs_alloc_btable, AddFileHash(<< 1 >>))
        THEN [AddHentry(AddFileHash(<< 1 >>), FirstDataChunk(v), 1)
                 EXCEPT !.flags = {SHFS_EFLAG_DEFAULT}]
        ELSE EmptyHentry]

\* A volume on which a former session has stored the file << 1 >> and made it
\* the default object, no process running.
InitStored ==
    /\ vol \in { [htable_ref |-> l.htable_ref, htable_bak_ref |-> l.htable_bak_ref,
                  volsize |-> l.volsize, allocator |-> a] :
                 l \in Layouts, a \in Allocators }
    /\ pri = StoredTable(vol)
    /\ bak = StoredTable(vol)
    /\ data = [c \in 0 .. vol.volsize |->
                  IF c = FirstDataChunk(vol) THEN CopyBlock(<< 1 >>, 0) ELSE ZeroChunk]
    /\ phase = "down"
    /\ cache = [i \in Slots |-> EmptyHentry]
    /\ cstate = [c \in HtChunks |-> FALSE]
    /\ bt = shfs_alloc_btable
    /\ al = {}
    /\ def_bentry = NULL
    /\ cancel = FALSE
    /\ ntok = 0
    /\ runs = 0
    /\ last = NoAction
    /\ snap = NoSnap
    /\ failed = 0
    /\ exitcode = NoExit
    /\ assembly = NoAssembly
    /\ only_reads = TRUE
    /\ copied = [NoCopied EXCEPT
                    !.dsk = [i \in Slots |->
                                IF StoredTable(vol)[i].hash # 0
                                THEN {FirstDataChunk(vol)} ELSE {}]]

(***************************************************************************)
(* Specification                                                           *)
(***************************************************************************)
Next ==
    \/ Mount
    \/ sigint_handler
    \/ AddObj
    \/ RmObj
    \/ CatObj
    \/ SetDefault
    \/ ClearDefault
    \/ Ls
    \/ Info
    \/ Umount

\* the same program on the volume a former session has left
SpecStored == InitStored /\ [][Next]_vars

\* main reaches umount_shfs once its loop has ended
LiveSpec == Init /\ [][Next]_vars /\ WF_vars(Umount)

Spec == Init /\ [][Next]_vars

(***************************************************************************)
(* Properties                                                              *)
(***************************************************************************)
NonEmptySlots == { i \in Slots : cache[i].hash # 0 }

Container(i) == ChunkRange(cache[i].chunk, ContainerLen(cache[i]))

RECURSIVE SumContainerLen(_)
SumContainerLen(S) ==
    IF S = {} THEN 0
    ELSE LET i == CHOOSE x \in S : TRUE
         IN  ContainerLen(cache[i]) + SumContainerLen(S \ {i})

ReservedChunks ==
    ChunkRange(0, 2) \cup ChunkRange(vol.htable_ref, htable_len)
        \cup (IF vol.htable_bak_ref # 0
              THEN ChunkRange(vol.htable_bak_ref, htable_len) ELSE {})

\* C1: between completed actions on a mounted volume, the occupied chunks of
\* the allocator number the container chunks of all non-empty entries, plus 2
\* label chunks, plus htable_len, plus htable_len again with a backup region.
C1_AllocatorSum ==
    phase = "up" =>
        Cardinality(al) = SumContainerLen(NonEmptySlots) + 2 + htable_len
                          + (IF vol.htable_bak_ref # 0 THEN htable_len ELSE 0)

\* C2: on a mounted volume the container of every non-empty entry is occupied
\* in the allocator, also after an add that failed or was cancelled after it
\* had inserted its entry.
C2_ContainersRegistered ==
    phase = "up" => \A i \in NonEmptySlots : Container(i) \subseteq al

\* C3: the container of every non-empty entry lies in [2, volsize + 1) and
\* overlaps no other entry's container, no label chunk and no hash-table region.
C3_ContainersDisjoint ==
    phase = "up" =>
        \A i \in NonEmptySlots :
            /\ Container(i) \subseteq 2 .. vol.volsize
            /\ Container(i) \cap ReservedChunks = {}
            /\ \A j \in NonEmptySlots \ {i} : Container(i) \cap Container(j) = {}

UniqueDigests(b) ==
    \A i, j \in Slots : (b[i].hash # 0 /\ b[i].hash = b[j].hash) => i = j

\* C4: an action on a mounted bucket table with unique digests leaves the
\* digests unique: add inserts nothing when its digest is already present.
C4_DigestsStayUnique ==
    [][(phase = "up" /\ phase' = "up" /\ UniqueDigests(bt)) => UniqueDigests(bt')]_vars

\* C4 witness: an add found its digest in the table and inserted nothing.
C4_Witness ==
    /\ last.op = "add"
    /\ last.why = "duplicate"
    /\ shfs_btable_lookup(bt, last.hash) # NULL
    /\ UniqueDigests(bt)

DefaultSlots == { i \in NonEmptySlots : SHFS_HENTRY_ISDEFAULT(cache[i]) }

\* C5: at most one entry has the DEFAULT flag, vol.def_bentry references that
\* non-empty entry when there is one and is NULL otherwise.
C5_DefaultAgrees ==
    phase = "up" =>
        /\ Cardinality(DefaultSlots) <= 1
        /\ \A i \in DefaultSlots : def_bentry # NULL /\ HentrySlot(bt[def_bentry]) = i
        /\ DefaultSlots = {} => def_bentry = NULL

\* C6: an add that returns the cancel result leaves the allocator, the bucket
\* table and the hash-table chunk cache with its MODIFIED bits as they were.
C6_CancelledAddChangesNothing ==
    [][(last'.op = "add" /\ last'.ret = -2 /\ ntok' = ntok + 1)
          => (al' = al /\ bt' = bt /\ cache' = cache /\ cstate' = cstate)]_vars

\* C7: for a file of at least one byte the digest loop of add hands exactly the
\* bytes of the file, all of them and in order, to the digest primitive.
C7_DigestOfWholeFile ==
    (last.op = "add" /\ last.slot # NULL /\ Len(last.file) >= 1)
        => (last.out = last.file /\ last.hash = Digest(last.file))

\* byte i of chunk c of the container of a stored file: the file's byte, or the
\* zero padding behind the end of the file
PaddedByte(file, c, i) ==
    IF c * ChunkSize + i <= Len(file) THEN file[c * ChunkSize + i] ELSE 0

\* C8: a successful add leaves the file in the chunks [cchk, cchk + csize), the
\* last one zero-padded, and an export of the digest that add has just computed,
\* no read and no write failing, succeeds and emits exactly the bytes of the file.
C8_AddThenExport ==
    [][/\ (last'.op = "add" /\ last'.ret = 0 /\ ntok' = ntok + 1)
           => \A c \in 0 .. (DIV_ROUND_UP(Len(last'.file), ChunkSize) - 1) :
                  \A i \in 1 .. ChunkSize :
                      data'[last'.chunk + c][i] = PaddedByte(last'.file, c, i)
       /\ (/\ last.op = "add" /\ last.ret = 0
           /\ last'.op = "cat" /\ last'.why = "none" /\ last'.hash = last.hash)
           => (/\ last'.ret = 0
               /\ Len(last'.out) = Len(last.file)
               /\ last'.out = last.file)]_vars

\* C8 witness: the export that follows the add of a file of more than one chunk,
\* the last chunk partly filled, has emitted the file.
C8_Witness ==
    /\ last.op = "cat"
    /\ last.ret = 0
    /\ last.file # << >>
    /\ Len(last.file) > ChunkSize
    /\ Len(last.file) % ChunkSize # 0
    /\ last.out = last.file

\* a free gap of the chunks the file needs exists in [2, volsize + 1)
FitsVolume(a, file) ==
    \E s \in 2 .. (vol.volsize + 1) :
        FitsAt(a, s, DIV_ROUND_UP(Len(file), ChunkSize), vol.volsize)

\* C9: add(file); remove(digest); add(file), nothing failing underneath: the
\* first add does not fail for want of space when the file fits the volume, the
\* remove succeeds, and the second add succeeds with the digest of the first.
C9_AddRemoveAdd ==
    [][/\ (last'.op = "add" /\ last'.why = "nospace" /\ ntok' = ntok + 1)
           => ~FitsVolume(al, last'.file)
       /\ (last.op = "add" /\ last.ret = 0 /\ last'.op = "rm" /\ last'.hash = last.hash)
           => last'.ret = 0
       /\ (last.op = "rm" /\ last.ret = 0 /\ last.file # << >>
             /\ last'.op = "add" /\ last'.file = last.file
             /\ last'.why \in {"none", "nospace", "duplicate", "bucketfull"})
           => (last'.ret = 0 /\ last'.hash = last.hash)]_vars

\* C10: after an unmount without write error, the next mount rebuilds the
\* bucket table with the same digests in the same slots and the allocator with
\* the same occupied chunks as they were just before the unmount.
C10_RemountRebuilds ==
    (last.op = "mount" /\ snap.ok)
        => ([i \in Slots |-> bt[i].hash] = snap.hashes /\ al = snap.al)

\* C11: on a volume with a backup region that equalled the primary region at
\* mount, an unmount without write error leaves the backup region equal to the
\* primary region again, so that the backup copied over the primary gives the
\* same volume.
C11_BackupMirrorsPrimary ==
    [][(/\ phase = "up" /\ phase' = "down"
        /\ last'.op = "umount" /\ last'.ret = 0
        /\ vol.htable_bak_ref # 0
        /\ bak = pri)
          => bak' = pri']_vars

\* C11 witness: the first run of a volume with a backup region has ended in an
\* unmount that wrote a changed chunk to both regions, an object being stored.
C11_Witness ==
    /\ last.op = "umount"
    /\ last.ret = 0
    /\ runs = 1
    /\ vol.htable_bak_ref # 0
    /\ \E i \in HtChunks : << "bak", i >> \in { last.out[k] : k \in DOMAIN last.out }
    /\ \E i \in Slots : pri[i].hash # 0
    /\ bak = pri

\* C12: the add of a zero-byte regular file, nothing failing underneath,
\* succeeds and inserts an entry of len 0 for the digest of the empty content;
\* the export of that digest that follows succeeds and emits no byte.
C12_ZeroByteAdd ==
    [][/\ actn_addfile(<< >>, [kind |-> "none", at |-> 0])
           => /\ last'.ret = 0
              /\ \E i \in Slots : /\ bt'[i].hash = Digest(<< >>)
                                  /\ cache'[i].hash = Digest(<< >>)
                                  /\ cache'[i].len = 0
       /\ (/\ last.op = "add" /\ last.ret = 0 /\ last.file = << >>
           /\ last.hash = Digest(<< >>)
           /\ last'.op = "cat" /\ last'.why = "none" /\ last'.hash = last.hash)
           => (last'.ret = 0 /\ last'.out = << >>)]_vars

\* the step is one run of actn_addfile
AddStep == last'.op = "add" /\ ntok' = ntok + 1

\* C13: an add of a file that needs more chunks than any free gap of the
\* allocator holds fails with an error and leaves the allocator, the bucket
\* table and the hash-table chunk cache with its MODIFIED bits as they were.
C13_NoGapAddFails ==
    [][\A file \in Files :
          (AddStep /\ ~FitsVolume(al, file)) =>
              \A e \in AddEvents(DIV_ROUND_UP(Len(file), ChunkSize)) :
                  actn_addfile(file, e)
                      => /\ last'.ret < 0
                         /\ al' = al
                         /\ bt' = bt
                         /\ cache' = cache
                         /\ cstate' = cstate]_vars

\* C13 witness: with objects stored, an add was refused because no free gap had
\* the chunks its file needs.
C13_Witness ==
    /\ last.op = "add"
    /\ last.why = "nospace"
    /\ last.ret < 0
    /\ Len(last.file) >= 1
    /\ ~FitsVolume(al, last.file)
    /\ NonEmptySlots # {}
    /\ \A i \in NonEmptySlots : Container(i) \subseteq al

\* every slot of the bucket of digest h holds an entry
BucketFull(b, h) ==
    \A i \in BucketSlots(shfs_btable_bucket(h)) : b[i].hash # 0

\* C14: when every slot of bucket(h) is occupied, an add of a file with digest
\* h fails, with the bucket-full error when it gets as far as the insert, and
\* leaves the occupied chunks of the allocator as they were before the call and
\* no hash-table chunk newly marked MODIFIED.
C14_BucketFullAddFails ==
    [][\A file \in Files :
          (AddStep /\ BucketFull(bt, AddFileHash(file))) =>
              \A e \in AddEvents(DIV_ROUND_UP(Len(file), ChunkSize)) :
                  actn_addfile(file, e)
                      => /\ last'.ret < 0
                         /\ al' = al
                         /\ \A c \in HtChunks : cstate'[c] => cstate[c]
                         /\ (/\ e.kind = "none"
                             /\ last'.why \notin {"nospace", "duplicate"})
                                => (last'.why = "bucketfull" /\ last'.ret = -1)]_vars

\* C14 as stated: nothing failing underneath, the add of a file of at least one
\* byte into a bucket without an empty slot fails with the bucket-full error.
C14_AlwaysBucketFullError ==
    [][\A file \in Files :
          (AddStep /\ Len(file) >= 1 /\ BucketFull(bt, AddFileHash(file))) =>
              (actn_addfile(file, [kind |-> "none", at |-> 0])
                  => (last'.ret < 0 /\ last'.why = "bucketfull"))]_vars

\* C14 witness: an add found a range for its file and a bucket whose slots all
\* hold other digests, every stored object owning its chunks.
C14_Witness ==
    /\ last.op = "add"
    /\ last.why = "bucketfull"
    /\ BucketFull(bt, last.hash)
    /\ shfs_btable_lookup(bt, last.hash) = NULL
    /\ last.chunk \notin al
    /\ \A i \in NonEmptySlots : Container(i) \subseteq al

\* C15: an add of a file whose digest is present in the bucket table fails,
\* with the duplicate error when it gets as far as the lookup, and leaves the
\* existing entry, the bucket table, the occupied chunks of the allocator and
\* the MODIFIED bits as they were before the call.
C15_DuplicateAddFails ==
    [][\A file \in Files :
          (AddStep /\ shfs_btable_lookup(bt, AddFileHash(file)) # NULL) =>
              \A e \in AddEvents(DIV_ROUND_UP(Len(file), ChunkSize)) :
                  actn_addfile(file, e)
                      => /\ last'.ret < 0
                         /\ bt' = bt
                         /\ cache' = cache
                         /\ al' = al
                         /\ cstate' = cstate
                         /\ (e.kind = "none" /\ last'.why # "nospace")
                                => (last'.why = "duplicate" /\ last'.ret = -1)]_vars

\* C15 as stated: nothing failing underneath, the add of a file of at least one
\* byte whose digest is in the bucket table fails with the duplicate error.
C15_AlwaysDuplicateError ==
    [][\A file \in Files :
          (AddStep /\ Len(file) >= 1
             /\ shfs_btable_lookup(bt, AddFileHash(file)) # NULL) =>
              (actn_addfile(file, [kind |-> "none", at |-> 0])
                  => (last'.ret < 0 /\ last'.why = "duplicate"))]_vars

\* C15 witness: the file of a stored object was added a second time and refused
\* as a duplicate, the entry of the object being where and what it was.
C15_Witness ==
    /\ last.op = "add"
    /\ last.why = "duplicate"
    /\ last.ret = -1
    /\ last.chunk \notin al
    /\ \E i \in NonEmptySlots :
           /\ cache[i].hash = last.hash
           /\ bt[i].hash = last.hash
           /\ cache[i].len >= 1
           /\ Container(i) \subseteq al

\* C16: a successful remove leaves the range [s, s + n) of its object free, so
\* that find_free has a range for every file of at most n chunks; with the
\* first-fit allocator and no free chunk below s, the add that follows the
\* remove, of a file of 1 .. n chunks, is handed the start chunk s.
C16_AddReusesFreedRange ==
    [][/\ (last'.op = "rm" /\ last'.ret = 0 /\ ntok' = ntok + 1)
           => /\ ChunkRange(last'.chunk, ContainerLen(cache'[last'.slot])) \cap al' = {}
              /\ \A k \in 1 .. ContainerLen(cache'[last'.slot]) :
                     shfs_alist_find_free(al', k, vol.volsize, vol.allocator) # 0
       /\ (/\ last.op = "rm" /\ last.ret = 0
           /\ AddStep
           /\ vol.allocator = "FIRST"
           /\ \A c \in 2 .. (last.chunk - 1) : c \in al)
           => \A file \in Files :
                  \A e \in AddEvents(DIV_ROUND_UP(Len(file), ChunkSize)) :
                      (/\ actn_addfile(file, e)
                       /\ e.kind # "open"
                       /\ DIV_ROUND_UP(Len(file), ChunkSize)
                              \in 1 .. ContainerLen(cache[last.slot]))
                          => /\ last'.chunk = last.chunk
                             /\ last'.why # "nospace"
                             /\ last'.ret = 0
                                    => /\ cache'[last'.slot].chunk = last.chunk
                                       /\ ChunkRange(last.chunk, ContainerLen(cache'[last'.slot]))
                                              \subseteq al']_vars

\* C16 witness: first fit; the only object, of one chunk, was removed, and the
\* add of a file of two chunks was then placed at the start chunk of the removed
\* object, the chunk behind it having been free.
C16_Witness ==
    /\ vol.allocator = "FIRST"
    /\ last.op = "add"
    /\ last.ret = 0
    /\ DIV_ROUND_UP(Len(last.file), ChunkSize) = 2
    /\ NonEmptySlots = {last.slot}
    /\ ChunkRange(last.chunk, 2) \subseteq al
    /\ \E i \in Slots \ {last.slot} :
           /\ cache[i].hash = 0
           /\ ContainerLen(cache[i]) = 1
           /\ cache[i].chunk = last.chunk

\* the step executes one token
TokenStep == ntok' # ntok

\* the step is the unmount that ends a run
UmountStep == phase = "up" /\ phase' = "down"

\* C17 as stated: the run exits with success exactly when no token returned an
\* error and cancel was not raised, with the cancel code when cancel was
\* raised, and with failure otherwise.
C17_ExitStatusOfTokens ==
    [][UmountStep =>
          /\ (exitcode' = EXIT_SUCCESS) <=> (failed = 0 /\ ~cancel)
          /\ cancel => exitcode' = EXIT_CANCEL
          /\ (~cancel /\ failed > 0) => exitcode' = EXIT_FAILURE]_vars

\* C17: tokens are executed one after the other, each counted when it returned
\* an error, and none once cancel is set; a run whose unmount wrote back without
\* error exits with success exactly when no token returned an error and cancel
\* was not raised, with the cancel code when cancel was raised, and with failure
\* otherwise; a run whose write-back failed exits with failure.
C17_DriverExit ==
    [][/\ TokenStep
           => /\ phase = "up" /\ phase' = "up" /\ ~cancel
              /\ ntok' = ntok + 1
              /\ failed' = failed + (IF last'.ret < 0 THEN 1 ELSE 0)
              /\ exitcode' = NoExit
       /\ (phase = "up" /\ cancel)
           => (ntok' = ntok /\ failed' = failed /\ UmountStep)
       /\ (UmountStep /\ last'.ret = 0)
           => /\ (exitcode' = EXIT_SUCCESS) <=> (failed = 0 /\ ~cancel)
              /\ cancel => exitcode' = EXIT_CANCEL
              /\ (~cancel /\ failed > 0) => exitcode' = EXIT_FAILURE
       /\ (UmountStep /\ last'.ret # 0) => exitcode' = EXIT_FAILURE]_vars

\* C17 witness: a run was cancelled after a token had failed, was unmounted
\* without write error and exited with the cancel code.
C17_Witness ==
    /\ phase = "down"
    /\ last.op = "umount"
    /\ last.ret = 0
    /\ cancel
    /\ failed >= 1
    /\ ntok >= 2
    /\ exitcode = EXIT_CANCEL

\* C18: a token that returns an error while cancel stays clear is counted and
\* leaves the volume mounted and the driver at the next token of the list: the
\* tokens that follow are executed, one step of the index each.
C18_FailedTokenGoesOn ==
    [][(TokenStep /\ last'.ret < 0 /\ ~cancel')
          => /\ failed' = failed + 1
             /\ ntok' = ntok + 1
             /\ phase' = "up"
             /\ exitcode' = NoExit
             /\ (ntok' < (IF runs > 1 THEN RemountTokens ELSE MaxTokens))
                    => TokenEnabled']_vars

\* C18 witness: the last token of a run of three succeeded in storing an object
\* after the two before it had failed.
C18_Witness ==
    /\ phase = "up"
    /\ ~cancel
    /\ ntok = 3
    /\ failed = 2
    /\ last.op = "add"
    /\ last.ret = 0

\* chunk i of a hash-table region holds what the cache holds
ChunkWritten(region, c, i) ==
    \A s \in Slots : SHFS_HTABLE_CHUNK_NO(s) = i => region[s] = c[s]

\* C19 as stated: the unmount of a cancelled run leaves every MODIFIED chunk of
\* the cache in the primary region on disk.
C19_CancelAlwaysFlushes ==
    [][(UmountStep /\ cancel)
          => \A i \in HtChunks : cstate[i] => ChunkWritten(pri', cache, i)]_vars

\* C19: once cancel is raised on a mounted volume, unmount runs and the process
\* exits; when no write of the write-back fails, every chunk marked MODIFIED, by
\* the interrupted action too, is then on disk, in the backup region as well
\* when there is one.
C19_CancelStillUnmounts ==
    /\ (phase = "up" /\ cancel) ~> (phase = "down" /\ last.op = "umount")
    /\ [][(phase = "up" /\ cancel) => (UmountStep /\ last'.op = "umount")]_vars
    /\ [][(UmountStep /\ cancel /\ last'.ret = 0)
              => \A i \in HtChunks :
                     cstate[i] => /\ ChunkWritten(pri', cache, i)
                                  /\ vol.htable_bak_ref # 0
                                         => ChunkWritten(bak', cache, i)]_vars

\* C19 witness: a cancelled run has ended, its unmount having written a
\* MODIFIED chunk that holds an object.
C19_Witness ==
    /\ phase = "down"
    /\ cancel
    /\ exitcode = EXIT_CANCEL
    /\ last.op = "umount"
    /\ \E i \in HtChunks :
           /\ << "pri", i >> \in { last.out[k] : k \in DOMAIN last.out }
           /\ \E s \in Slots : SHFS_HTABLE_CHUNK_NO(s) = i /\ pri[s].hash # 0

\* C20: an unmount without write error writes every hash-table chunk whose
\* MODIFIED bit is set, once, from the cache to the primary region and, when
\* htable_bak_ref is not 0, to the backup region, and writes no chunk whose
\* MODIFIED bit is clear to either region.
C20_FlushExactlyModified ==
    [][(UmountStep /\ last'.op = "umount" /\ last'.ret = 0)
          => LET W == { last'.out[k] : k \in DOMAIN last'.out }
             IN  /\ Len(last'.out) = Cardinality(W)
                 /\ \A i \in HtChunks :
                        /\ (<< "pri", i >> \in W) <=> cstate[i]
                        /\ (<< "bak", i >> \in W)
                               <=> (cstate[i] /\ vol.htable_bak_ref # 0)
                 /\ \A s \in Slots :
                        /\ pri'[s] = IF cstate[SHFS_HTABLE_CHUNK_NO(s)]
                                      THEN cache[s] ELSE pri[s]
                        /\ bak'[s] = IF cstate[SHFS_HTABLE_CHUNK_NO(s)]
                                         /\ vol.htable_bak_ref # 0
                                      THEN cache[s] ELSE bak[s]]_vars

\* C20 witness: an unmount without write error wrote one chunk to both regions
\* and left the other chunk of the table, not MODIFIED, unwritten.
C20_Witness ==
    /\ last.op = "umount"
    /\ last.ret = 0
    /\ vol.htable_bak_ref # 0
    /\ \E i, j \in HtChunks :
           /\ << "pri", i >> \in { last.out[k] : k \in DOMAIN last.out }
           /\ << "bak", i >> \in { last.out[k] : k \in DOMAIN last.out }
           /\ << "pri", j >> \notin { last.out[k] : k \in DOMAIN last.out }
           /\ << "bak", j >> \notin { last.out[k] : k \in DOMAIN last.out }

\* C21: in the write-back of unmount every write to the primary region comes
\* before the first write to the backup region, so that an unmount that ends in
\* a write error on a primary chunk has left the backup region as it was.
C21_PrimaryBeforeBackup ==
    last.op = "umount" =>
        \A k, l \in DOMAIN last.out :
            (k < l /\ last.out[k][1] = "bak") => last.out[l][1] # "pri"

\* C22: between mount and unmount no action writes the primary or the backup
\* hash-table region, neither as table nor as payload chunk; what add, remove,
\* set-default and clear-default change of the table, they change in the cache.
C22_TableWrittenAtUnmountOnly ==
    [][(phase = "up" /\ phase' = "up")
          => /\ pri' = pri
             /\ bak' = bak
             /\ \A c \in DOMAIN data :
                    data'[c] # data[c]
                        => /\ c \notin ChunkRange(vol.htable_ref, htable_len)
                           /\ vol.htable_bak_ref # 0
                                  => c \notin ChunkRange(vol.htable_bak_ref, htable_len)]_vars

\* C22 witness: on a mounted volume with a backup region an add has stored its
\* file and its entry, and the entry is in the cache only.
C22_Witness ==
    /\ phase = "up"
    /\ vol.htable_bak_ref # 0
    /\ last.op = "add"
    /\ last.ret = 0
    /\ cache[last.slot].hash = last.hash
    /\ cstate[SHFS_HTABLE_CHUNK_NO(last.slot)]
    /\ pri[last.slot].hash = 0
    /\ bak[last.slot].hash = 0
    /\ data[last.chunk] # ZeroChunk

\* C23: on a mounted volume every chunk of the cache that differs from what
\* mount loaded from the primary region has its MODIFIED bit set.
C23_ChangedChunksMarked ==
    phase = "up" =>
        \A i \in HtChunks : ~ChunkWritten(pri, cache, i) => cstate[i]

\* C23 witness: the object a former run had stored was removed; the chunk of its
\* entry differs from the primary region and is marked, another chunk is as
\* loaded and unmarked.
C23_Witness ==
    /\ phase = "up"
    /\ last.op = "rm"
    /\ last.ret = 0
    /\ pri[last.slot].hash = last.hash
    /\ cache[last.slot].hash = 0
    /\ cstate[SHFS_HTABLE_CHUNK_NO(last.slot)]
    /\ \E i \in HtChunks : ChunkWritten(pri, cache, i) /\ ~cstate[i]

\* the slots whose entry in cache c has the DEFAULT flag
FlaggedSlots(c) == { i \in Slots : SHFS_HENTRY_ISDEFAULT(c[i]) }

\* C24: a set-default of a present digest d succeeds, leaves the DEFAULT flag on
\* the entry of d and on no other, makes vol.def_bentry the bentry of d and
\* marks MODIFIED the chunk of the former default entry, if there was one, and
\* the chunk of the entry of d; so too when d was the default already.
C24_SetDefault ==
    [][(last'.op = "setdefault" /\ TokenStep) =>
          \A str \in HashStrings :
              LET d == hash_parse(str)
                  b == shfs_btable_lookup(bt, d)
              IN  (actn_setdefault(str) /\ d # NULL /\ b # NULL)
                      => /\ last'.ret = 0
                         /\ FlaggedSlots(cache') = {HentrySlot(bt[b])}
                         /\ cache'[HentrySlot(bt[b])].hash = d
                         /\ def_bentry' = b
                         /\ bt' = bt
                         /\ cstate'[bt[b].hentry_htchunk]
                         /\ def_bentry # NULL => cstate'[bt[def_bentry].hentry_htchunk]
                         /\ \A i \in Slots :
                                [cache'[i] EXCEPT !.flags = {}]
                                    = [cache[i] EXCEPT !.flags = {}]]_vars

\* C24 witness: the default object of the mounted volume was replaced as
\* default by an object whose entry lies in another hash-table chunk; the flag
\* has moved and both chunks are marked.
C24_Witness ==
    /\ last.op = "setdefault"
    /\ last.ret = 0
    /\ last.out # << NULL >>
    /\ last.out # << last.slot >>
    /\ SHFS_HTABLE_CHUNK_NO(last.out[1]) # SHFS_HTABLE_CHUNK_NO(last.slot)
    /\ SHFS_HENTRY_ISDEFAULT(pri[last.out[1]])
    /\ cache[last.out[1]].hash # 0
    /\ FlaggedSlots(cache) = {last.slot}
    /\ def_bentry = last.slot
    /\ \A c \in HtChunks : cstate[c]

\* C25: a successful remove of digest d unregisters exactly the chunks
\* [chunk, chunk + ceil((offset + len) / chunksize)) of the entry of d, zeroes
\* the digest of that entry in the cache, clears its slot of the bucket table
\* and marks the chunk of the entry MODIFIED; lookup(d) then finds nothing, and
\* every other entry is as it was: its digest, its fields, its slot of the
\* bucket table, and its payload range, occupied as before and with the same
\* bytes.
C25_Remove ==
    [][(last'.op = "rm" /\ TokenStep) =>
          \A str \in HashStrings :
              LET d    == hash_parse(str)
                  b    == shfs_btable_lookup(bt, d)
                  slot == HentrySlot(bt[b])
              IN  (actn_rmfile(str) /\ last'.ret = 0)
                      => /\ d # NULL /\ b # NULL
                         /\ Container(slot) \subseteq al
                         /\ al' = al \ Container(slot)
                         /\ cache'[slot] = [cache[slot] EXCEPT !.hash = 0]
                         /\ bt'[b].hash = 0
                         /\ cstate'[bt[b].hentry_htchunk]
                         /\ \A c \in HtChunks \ {bt[b].hentry_htchunk} :
                                cstate'[c] = cstate[c]
                         /\ shfs_btable_lookup(bt', d) = NULL
                         /\ \A i \in Slots \ {slot} : cache'[i] = cache[i]
                         /\ \A i \in Slots \ {b} : bt'[i] = bt[i]
                         /\ \A i \in NonEmptySlots \ {slot} :
                                Container(i) \subseteq al => Container(i) \subseteq al'
                         /\ data' = data]_vars

\* the supplied devices that carry member UUID u
DevicesOf(u) == { m \in DOMAIN assembly.devs : assembly.devs[m] = u }

\* C26: the member assembly completes only when as many devices were supplied
\* as the header declares members and every declared member UUID is carried by
\* exactly one supplied device; a missing member, a member UUID on two supplied
\* devices or twice in the header, and a supplied device the header does not
\* declare are fatal; after completion volume member i is the device that
\* carries the i-th UUID of the member table.
C26_MemberAssembly ==
    assembly.done =>
        LET hdr  == assembly.hdr
            devs == assembly.devs
        IN  /\ ~assembly.fatal
                   => /\ Len(devs) = Len(hdr)
                      /\ \A i \in DOMAIN hdr : Cardinality(DevicesOf(hdr[i])) = 1
                      /\ Len(assembly.member) = Len(hdr)
                      /\ \A i \in DOMAIN hdr :
                             /\ assembly.member[i].uuid = hdr[i]
                             /\ DevicesOf(hdr[i]) = {assembly.member[i].d}
            /\ (\E i \in DOMAIN hdr : DevicesOf(hdr[i]) = {}) => assembly.fatal
            /\ (\E i \in DOMAIN hdr : Cardinality(DevicesOf(hdr[i])) > 1)
                   => assembly.fatal
            /\ (\E i, j \in DOMAIN hdr : i # j /\ hdr[i] = hdr[j]) => assembly.fatal
            /\ (\E m \in DOMAIN devs : \A i \in DOMAIN hdr : hdr[i] # devs[m])
                   => assembly.fatal
            /\ Len(devs) # Len(hdr) => assembly.fatal

\* C26 witness: two devices supplied in the reverse of the order of the member
\* table were assembled in the order of the table.
C26_Witness ==
    /\ assembly.done
    /\ ~assembly.fatal
    /\ Len(assembly.hdr) = 2
    /\ assembly.devs = << assembly.hdr[2], assembly.hdr[1] >>
    /\ assembly.member[1].d = 2
    /\ assembly.member[2].d = 1

\* a mount step
MountStep == phase = "down" /\ phase' = "up"

\* C27: after mount the bentry of every slot i has hentry_htchunk =
\* floor(i / entries per chunk) and hentry_htoffset = (i mod entries per chunk)
\* * entry size; every hash-table chunk was read from the primary region
\* exactly once, its content is in the cache and its MODIFIED bit is clear;
\* def_bentry is the bentry of a slot whose DEFAULT flag is set in the primary
\* region, if there is one.
C27_MountLoadsTable ==
    [][MountStep =>
        /\ \A i \in Slots :
               /\ bt'[i].hentry_htchunk = i \div (ChunkSize \div HentrySize)
               /\ bt'[i].hentry_htoffset = (i % (ChunkSize \div HentrySize)) * HentrySize
               /\ bt'[i].hash = pri[i].hash
        /\ \A c \in HtChunks :
               /\ Cardinality({ k \in DOMAIN last'.out : last'.out[k] = c }) = 1
               /\ ~cstate'[c]
        /\ \A i \in Slots : cache'[i] = pri[i]
        /\ FlaggedSlots(pri) # {} => def_bentry' \in FlaggedSlots(pri)
        /\ FlaggedSlots(pri) = {} => def_bentry' = NULL]_vars

\* C27 witness: a volume that holds objects in both hash-table chunks, one of
\* them the default, was mounted.
C27_Witness ==
    /\ last.op = "mount"
    /\ phase = "up"
    /\ \A c \in HtChunks : \E i \in Slots :
           bt[i].hentry_htchunk = c /\ pri[i].hash # 0 /\ bt[i].hash = pri[i].hash
    /\ def_bentry # NULL
    /\ SHFS_HENTRY_ISDEFAULT(pri[def_bentry])

\* a remove, set-default or export that failed on its digest, or a remove that
\* failed to release the container
FailedEarly ==
    /\ TokenStep
    /\ last'.ret < 0
    /\ \/ last'.op \in {"rm", "setdefault", "cat"} /\ last'.why \in {"parse", "notfound"}
       \/ last'.op = "rm" /\ last'.why = "release"

\* C28: a remove, set-default or export with a malformed or absent digest, and
\* a remove whose allocator unregister fails, change neither the allocator, nor
\* the bucket table, nor a hash-table entry, nor a MODIFIED bit, nor def_bentry,
\* nor the volume.
C28_FailedActionChangesNothing ==
    [][FailedEarly => UNCHANGED << al, bt, cache, cstate, def_bentry, disk >>]_vars

\* C28 witness: a remove found its entry, failed to release the container and
\* left the entry in the bucket table and in the cache.
C28_Witness ==
    /\ last.op = "rm"
    /\ last.ret = -1
    /\ last.why = "release"
    /\ bt[last.slot].hash = last.hash
    /\ cache[last.slot].hash = last.hash
    /\ ~(Container(last.slot) \subseteq al)
    /\ Container(last.slot) \cap al # {}

\* a cat-obj, ls or info token
ReadStep == TokenStep /\ last'.op \in ReadActions

\* C29: cat-obj, ls and info leave the allocator, the bucket table, every
\* cached hash-table entry, every MODIFIED bit, def_bentry and the volume as
\* they are; the unmount of a run in which only these actions were executed
\* writes no chunk.
C29_ReadActionsWriteNothing ==
    [][/\ ReadStep => UNCHANGED << al, bt, cache, cstate, def_bentry, disk >>
       /\ UmountStep /\ only_reads => last'.out = << >> /\ UNCHANGED disk]_vars

\* C29 witness: two or more tokens, all of them cat-obj, ls or info, ran on a
\* volume that holds an object, and the unmount wrote nothing.
C29_Witness ==
    /\ phase = "down"
    /\ last.op = "umount"
    /\ last.out = << >>
    /\ only_reads
    /\ ntok >= 2
    /\ runs = 1
    /\ \E i \in Slots : pri[i].hash # 0

\* the digests a token can name
ParsedDigests == { hash_parse(str) : str \in HashStrings } \ {NULL}

\* the release of actn_rmfile would succeed for the entry lookup finds for h
RmWouldRelease(h) ==
    LET b      == shfs_btable_lookup(bt, h)
        hentry == cache[HentrySlot(bt[b])]
    IN  b # NULL => alist_unregister_ok(al, hentry.chunk, ContainerLen(hentry))

\* C30: on a mounted volume the remove of every digest that lookup finds in the
\* bucket table succeeds: the payload range of every present entry is fully
\* occupied in the allocator, so that unregister does not fail.
C30_RemoveAlwaysSucceeds ==
    phase = "up" => \A h \in ParsedDigests : RmWouldRelease(h)

\* the payload range of hash-table entry hentry
PayloadRange(hentry) == ChunkRange(hentry.chunk, DIV_ROUND_UP(hentry.len, ChunkSize))

\* C31: every non-empty hash-table entry in the primary region on disk refers
\* to a payload range [chunk, chunk + ceil(len / chunksize)) of which the add
\* that created the entry has written every chunk, also after an add that
\* failed or was cancelled in its copy loop.
C31_FlushedEntriesHavePayload ==
    \A i \in Slots : pri[i].hash # 0 => PayloadRange(pri[i]) \subseteq copied.dsk[i]

====
